---- MODULE Spec2Model ----
(***************************************************************************)
(* Model of src/process.py (class ConvertGeotiff): the batch conversion    *)
(* of GeoTIFF files into tile-server, archive, preview, outline and JSON   *)
(* artifacts.  File names are sequences of one-character strings.  Calls   *)
(* into the raster/vector engine are modelled by the artifacts they write  *)
(* and by a choice over their documented outcomes.                         *)
(***************************************************************************)
EXTENDS Integers, Sequences, FiniteSets, TLC

VARIABLES
    params,      \* the configuration module read by the code (params.*)
    metadata,    \* the list object params.metadata
    idx,         \* number of files the directory walk has yielded so far
    pc,          \* position of the single thread of control
    file,        \* loop variable `file` of processTifs
    raster,      \* header of the raster stored in the file the walk yielded
    file_ds,     \* local `file_ds`: "unbound", "None" or the index of the opened file
    self,        \* instance attributes of ConvertGeotiff
    exported,    \* the engine calls made for the current file, in call order
    tmpWarp,     \* local `tmpWarp` of exportGeoserverFiles
    colorValues, \* the list built by getMdeColorValues
    scratch,     \* files present in TEMP_FOLDER
    failure      \* the exception or exit that ended the run, "none" while running

vars == <<params, metadata, idx, pc, file, raster, file_ds, self, exported, tmpWarp,
          colorValues, scratch, failure>>

(***************************************************************************)
(* Bounds of the model.                                                    *)
(***************************************************************************)
MaxFiles == 2       \* files yielded by one directory walk
MaxParts == 4       \* parts a generated file name stem is built from
NumTokens == 2      \* sampled outcomes of the random token generator
MaxPolys == 2       \* candidate polygons returned by the polygonization
MaxElev == 4        \* percentile values range over -MaxElev..MaxElev
MaxBands == 4       \* band counts range over 1..MaxBands

(***************************************************************************)
(* Strings: str.split, the `in` test, str.endswith, os.path.splitext.      *)
(***************************************************************************)
Chr(s) == <<s>>

\* str.find: index of the first occurrence of sep in s, 0 when there is none
Find(s, sep) ==
    LET hits == {i \in 1..(Len(s) - Len(sep) + 1) : SubSeq(s, i, i + Len(sep) - 1) = sep}
    IN IF hits = {} THEN 0 ELSE CHOOSE i \in hits : \A j \in hits : i <= j

\* `sep in s`
Contains(s, sep) == Find(s, sep) # 0

\* s.endswith(suffix)
EndsWith(s, suffix) ==
    /\ Len(s) >= Len(suffix)
    /\ SubSeq(s, Len(s) - Len(suffix) + 1, Len(s)) = suffix

\* s.split(sep): the pieces between the non-overlapping occurrences of sep,
\* scanned from the left
RECURSIVE Split(_, _)
Split(s, sep) ==
    LET i == Find(s, sep)
    IN IF i = 0 THEN <<s>>
       ELSE <<SubSeq(s, 1, i - 1)>> \o Split(SubSeq(s, i + Len(sep), Len(s)), sep)

\* index of the last "." of p, 0 when there is none
LastDot(p) ==
    LET dots == {i \in 1..Len(p) : p[i] = "."}
    IN IF dots = {} THEN 0 ELSE CHOOSE i \in dots : \A j \in dots : j <= i

\* os.path.splitext(filename)[0]: cut at the last dot unless only dots precede it
removeExtension(filename) ==
    LET d == LastDot(filename)
    IN IF d > 0 /\ \E i \in 1..(d - 1) : filename[i] # "."
       THEN SubSeq(filename, 1, d - 1)
       ELSE filename

cleanFilename_keepsVersion(filename) == filename

\* ConvertGeotiff.cleanFilename
cleanFilename(filename) == Split(filename, Chr("-"))[1]

(***************************************************************************)
(* secrets.token_hex(nbytes): nbytes random bytes, two hex digits each.    *)
(***************************************************************************)
NBytes == 6

HexChars == <<"0", "1", "2", "3", "4", "5", "6", "7", "8", "9", "a", "b", "c", "d", "e", "f">>

HexByte(b) == <<HexChars[(b \div 16) + 1], HexChars[(b % 16) + 1]>>

RECURSIVE HexOf(_)
HexOf(bytes) ==
    IF bytes = <<>> THEN <<>> ELSE HexByte(Head(bytes)) \o HexOf(Tail(bytes))

\* the k-th sampled outcome of reading n random bytes
RandomBytes(k, n) == [i \in 1..n |-> (k * 97 + i * 57) % 256]

token_hex(nbytes) == {HexOf(RandomBytes(k, nbytes)) : k \in 1..NumTokens}

(***************************************************************************)
(* Inputs: configuration values, file names and raster headers.            *)
(***************************************************************************)
TifExt == <<".", "t", "i", "f">>
TiffExt == <<".", "t", "i", "f", "f">>
TxtExt == <<".", "t", "x", "t">>

SamplePrefix == <<"_", "o">>
SampleSuffix == <<"_", "d">>
SampleEpsgs == <<4326, 32720>>
TargetEpsg == SampleEpsgs[1]
OtherEpsg == SampleEpsgs[2]
SampleAreas == <<10, 11>>
SampleNoData == <<"num", 7>>

\* the configurations a run is started with
Configs ==
    [filename_prefix : {SamplePrefix},
     filename_suffix : {SampleSuffix},
     geoserver_epsg : {TargetEpsg},
     outlines_enabled : BOOLEAN,
     outlines_minimum_area : {SampleAreas[1]},
     storage_exportJSON : BOOLEAN,
     storage_previews : BOOLEAN,
     export_sld : {TRUE}]

ConfiguredTags == << <<"source", <<"x">> >> >>

\* the names the directory walk of a batch run yields
WalkNames ==
    { <<"r">> \o SamplePrefix \o <<"m">> \o TifExt,
      <<"s">> \o SamplePrefix \o <<"m">> \o SampleSuffix \o TiffExt,
      <<"n">> \o TxtExt }

\* name stems built from at most n parts
NameParts == { <<"r">>, <<"_">>, <<"-">>, <<".">>, SamplePrefix, SampleSuffix }

RECURSIVE Stems(_)
Stems(n) ==
    IF n = 0 THEN { <<>> }
    ELSE LET shorter == Stems(n - 1)
         IN shorter \cup { s \o p : s \in shorter, p \in NameParts }

IdentityNames == { s \o TifExt : s \in Stems(MaxParts) }

\* np.percentile results of a pixel sample set: NaN for an empty set, else
\* the low and the high percentile
PercentilePairs(lo, hi) ==
    { <<"num", a, b>> : a \in lo..hi, b \in lo..hi }

NoStats == <<"n/a">>

\* raster headers: band count, colour role of the last band, its nodata
\* value, EPSG code, and (elevation rasters) the percentiles of the pixels
Headers(bands, nodatas, epsgs, alphas) ==
    [bands : bands, alpha : alphas, nodata : nodatas, epsg : epsgs, stats : {NoStats}]

\* the band counts of the documented inputs: elevation, elevation with mask,
\* RGB, RGB with alpha
DocumentedBands == {1, 2, 3, 4}

WalkRasters ==
    { [h EXCEPT !.stats = st] :
        h \in Headers(DocumentedBands, { <<"None">>, <<"NaN">>, SampleNoData },
                      {TargetEpsg, OtherEpsg}, BOOLEAN),
        st \in { <<"NaN">>, <<"num", 0, 1>> } }

IdentityRasters == Headers(1..MaxBands, { SampleNoData }, {TargetEpsg}, {FALSE})

RampRasters ==
    { [h EXCEPT !.stats = st] :
        h \in { g \in IdentityRasters : g.bands = 1 },
        st \in PercentilePairs(0 - MaxElev, MaxElev) \cup { <<"NaN">> } }

(***************************************************************************)
(* Identity and classification, processTifs lines 92-125.                  *)
(***************************************************************************)
isMDE_strict(bandas) == bandas < 2

\* self.isMDE = self.bandas <= 2
isMDE(bandas) == bandas <= 2

\* math.isnan(self.noDataValue) -> 0
normalizeNoData(v) == IF v = <<"NaN">> THEN <<"num", 0>> ELSE v

\* self.mapId, lines 111-112 and 117-118
mapIdOf(f, mde, ok, token) ==
    LET prefix == params.filename_prefix
        suffix == params.filename_suffix
    IN IF mde
       THEN IF ok THEN removeExtension(Split(Split(f, prefix)[2], suffix)[1]) ELSE token
       ELSE IF ok THEN removeExtension(Split(f, prefix)[2]) ELSE token

\* self.registroid, lines 114-115 and 120-121
registroidOf(f, mde, ok) ==
    LET prefix == params.filename_prefix
        suffix == params.filename_suffix
    IN IF mde
       THEN IF ok THEN Split(f, prefix)[1]
            ELSE cleanFilename(removeExtension(Split(f, suffix)[1]))
       ELSE IF ok THEN Split(f, Chr("_"))[1]
            ELSE cleanFilename(removeExtension(f))

\* self.output, line 123
outputOf(registroid, mapId) == registroid \o params.filename_prefix \o mapId

\* self.outputFilename, lines 124-125
outputFilenameOf(output, mde) ==
    IF ~mde THEN output ELSE output \o params.filename_suffix

(***************************************************************************)
(* Colour ramp, getMdeColorValues lines 486-503.  Elevations are held as   *)
(* integer multiples of 1/14, so that the two halvings and the division by *)
(* 7 of line 489 are exact.                                                *)
(***************************************************************************)
Scale == 14
RampLen == 7

\* per = ((trimmedMax / 2) - (trimmedMin / 2)) / 7
perOf(trimmedMin, trimmedMax) == ((trimmedMax \div 2) - (trimmedMin \div 2)) \div 7

rampAdvance_even(cont, per) == per

\* what one pass of the loop adds to trimmedMin, lines 494-500
rampAdvance(cont, per) ==
    per + (IF cont = 1 THEN per
           ELSE IF cont = 3 THEN per * 3
           ELSE IF cont = 4 \/ cont = 5 THEN per * 2
           ELSE 0)

\* the while loop of lines 491-501
RECURSIVE rampLoop(_, _, _, _)
rampLoop(cont, trimmedMin, per, acc) ==
    IF cont < RampLen
    THEN rampLoop(cont + 1, trimmedMin + rampAdvance(cont, per), per,
                  Append(acc, trimmedMin))
    ELSE acc

\* getMdeColorValues from the percentiles on: <<"raise">> for a NaN
\* percentile, else the list of breakpoints
getMdeColorValues(stats) ==
    IF stats[1] # "num" THEN <<"raise">>
    ELSE LET trimmedMin == stats[2] * Scale
             trimmedMax == stats[3] * Scale
         IN rampLoop(0, trimmedMin, perOf(trimmedMin, trimmedMax), <<>>)

(***************************************************************************)
(* State after ConvertGeotiff.__init__ has run up to the call of           *)
(* processTifs, lines 41-53.                                               *)
(***************************************************************************)
NewSelf ==
    [bandas |-> 0, tieneCanalAlfa |-> FALSE, noDataValue |-> <<"unset">>,
     isMDE |-> FALSE, mapId |-> <<>>, registroid |-> <<>>, output |-> <<>>,
     outputFilename |-> <<>>, epsg |-> 0, extra_metadata |-> "unset"]

NoRaster == [bands |-> 0, alpha |-> FALSE, nodata |-> <<"unset">>, epsg |-> 0,
             stats |-> NoStats]

Init ==
    /\ params \in Configs
    /\ metadata = ConfiguredTags
    /\ idx = 0
    /\ pc = "walk"
    /\ file = <<>>
    /\ raster = NoRaster
    /\ file_ds = <<"unbound">>
    /\ self = NewSelf
    /\ exported = <<>>
    /\ tmpWarp = <<"None">>
    /\ colorValues = <<>>
    /\ scratch = {}
    /\ failure = "none"

Abort_continues(how) ==
    /\ pc' = "walk"
    /\ failure' = how

\* an uncaught exception or sys.exit ends the run where it stands
Abort(how) ==
    /\ pc' = "aborted"
    /\ failure' = how

\* file.endswith(".tif") | file.endswith(".tiff"), line 84
isTif(f) == EndsWith(f, TifExt) \/ EndsWith(f, TiffExt)

(***************************************************************************)
(* processTifs, lines 80-90: the walk yields a file; a .tif/.tiff file is  *)
(* opened, and a failure to open it exits the process.                     *)
(***************************************************************************)
NextFile ==
    /\ pc = "walk"
    /\ idx < MaxFiles
    /\ \E f \in WalkNames, opens \in BOOLEAN, r \in WalkRasters :
        /\ idx' = idx + 1
        /\ file' = f
        /\ exported' = <<>>
        /\ IF isTif(f)
           THEN IF opens
                THEN /\ file_ds' = <<"ds", idx + 1>>
                     /\ raster' = r
                     /\ pc' = "bands"
                     /\ UNCHANGED failure
                ELSE /\ Abort("SystemExit")
                     /\ raster' = NoRaster
                     /\ UNCHANGED file_ds
           ELSE /\ pc' = "bands"
                /\ raster' = NoRaster
                /\ UNCHANGED <<file_ds, failure>>
    /\ UNCHANGED <<params, metadata, self, tmpWarp, colorValues, scratch>>

\* the walk has no more files: processTifs returns
WalkDone ==
    /\ pc = "walk"
    /\ pc' = "finished"
    /\ UNCHANGED <<params, metadata, idx, file, raster, file_ds, self, exported,
                   tmpWarp, colorValues, scratch, failure>>

(***************************************************************************)
(* processTifs, lines 92-105: band count, alpha flag, nodata, kind.        *)
(***************************************************************************)
ReadBands ==
    /\ pc = "bands"
    /\ IF file_ds = <<"unbound">>
       THEN Abort("UnboundLocalError") /\ UNCHANGED self
       ELSE IF file_ds = <<"None">>
       THEN Abort("AttributeError") /\ UNCHANGED self
       ELSE LET read == [self EXCEPT !.bandas = raster.bands,
                                     !.tieneCanalAlfa = raster.alpha,
                                     !.noDataValue = raster.nodata]
            IN IF raster.nodata = <<"None">>
               THEN Abort("TypeError") /\ self' = read
               ELSE /\ self' = [read EXCEPT !.noDataValue = normalizeNoData(raster.nodata),
                                            !.isMDE = isMDE(raster.bands)]
                    /\ pc' = "identity"
                    /\ UNCHANGED failure
    /\ UNCHANGED <<params, metadata, idx, file, raster, file_ds, exported, tmpWarp,
                   colorValues, scratch>>

(***************************************************************************)
(* processTifs, lines 92 and 110-125: map id, registry id, output name.    *)
(***************************************************************************)
ResolveIdentity ==
    /\ pc = "identity"
    /\ \E token \in token_hex(NBytes) :
        LET ok == Contains(file, params.filename_prefix)
            mapId == mapIdOf(file, self.isMDE, ok, token)
            registroid == registroidOf(file, self.isMDE, ok)
            output == outputOf(registroid, mapId)
        IN self' = [self EXCEPT !.mapId = mapId,
                                !.registroid = registroid,
                                !.output = output,
                                !.outputFilename = outputFilenameOf(output, self.isMDE)]
    /\ pc' = "metadata"
    /\ UNCHANGED <<params, metadata, idx, file, raster, file_ds, exported, tmpWarp,
                   colorValues, scratch, failure>>

\* the two append calls of lines 145-148 on the list self.extra_metadata names
appendTags(tags, registroid, mapId) ==
    tags \o << <<"registroId", registroid>>, <<"mapId", mapId>> >>

(***************************************************************************)
(* processTifs, lines 136-148: EPSG code and the extra metadata tags.      *)
(* Line 143 binds self.extra_metadata to the list params.metadata itself.  *)
(***************************************************************************)
ReadMetadata ==
    /\ pc = "metadata"
    /\ self' = [self EXCEPT !.epsg = raster.epsg, !.extra_metadata = "params.metadata"]
    /\ metadata' = appendTags(metadata, self.registroid, self.mapId)
    /\ pc' = "storage"
    /\ UNCHANGED <<params, idx, file, raster, file_ds, exported, tmpWarp,
                   colorValues, scratch, failure>>

(***************************************************************************)
(* The engine calls.  Each call that writes an artifact is recorded with   *)
(* its target, the output name, the dataset it reads, the nodata setting   *)
(* and metadata options it is given and, for the outline file, what became *)
(* of the geometry and the number of features the file holds.              *)
(***************************************************************************)
Call(target, name, src, nodata, meta) ==
    [target |-> target, name |-> name, src |-> src, nodata |-> nodata,
     meta |-> meta, outcome |-> "written", features |-> 0]

NotGiven == <<"not given">>

nodataSetting_alwaysSource(alpha, noDataValue) == noDataValue

\* 'none' if self.tieneCanalAlfa else self.noDataValue, lines 204, 226, 270
nodataSetting(alpha, noDataValue) == IF alpha THEN <<"none">> ELSE noDataValue

\* the list that self.extra_metadata names, as the engine reads it
metadataOptions == IF self.extra_metadata = "params.metadata" THEN metadata ELSE <<>>

outlineWanted_anyKind(mde) == params.outlines_enabled

\* params.outlines['enabled'] and not self.isMDE, line 234
outlineWanted(mde) == params.outlines_enabled /\ ~mde

\* params.storage['exportJSON'] and not self.isMDE, line 284
jsonWanted(mde) == params.storage_exportJSON /\ ~mde

stageAfter_outlineFirst(stage) ==
    CASE stage = "storage" -> IF params.storage_previews THEN "preview" ELSE "outline"
      [] stage = "preview" -> "outline"
      [] stage = "outline" -> "warp"
      [] stage = "warp" -> "translate"
      [] stage = "translate" -> "walk"

\* the order of the calls of processTifs, lines 150-158, exportStorageFiles,
\* lines 279-288, and exportGeoserverFiles, lines 194-237: the step that
\* follows each export step of a file
stageAfter(stage) ==
    CASE stage = "storage" -> IF params.storage_previews THEN "preview" ELSE "warp"
      [] stage = "preview" -> "warp"
      [] stage = "warp" -> "outline"
      [] stage = "outline" -> "translate"
      [] stage = "translate" -> "walk"

(***************************************************************************)
(* exportStorageFiles, lines 248-290 up to the preview: the archive raster *)
(* and, for an orthomosaic, the raster-info JSON.                          *)
(***************************************************************************)
ExportStorage ==
    /\ pc = "storage"
    /\ LET archive == Call("archive", self.outputFilename, file_ds,
                           nodataSetting(self.tieneCanalAlfa, self.noDataValue),
                           metadataOptions)
           json == Call("json", self.outputFilename, <<"archive">>, NotGiven, <<>>)
       IN exported' = exported \o <<archive>> \o
              (IF jsonWanted(self.isMDE) THEN <<json>> ELSE <<>>)
    /\ pc' = stageAfter("storage")
    /\ UNCHANGED <<params, metadata, idx, file, raster, file_ds, self, tmpWarp,
                   colorValues, scratch, failure>>

\* tmpGeotiffCompressed, line 541, written by the warp of line 544
tmpGeotiffCompressed == <<"mde_compress.tif">>

\* tmpColoredHillshadeContrast, line 538, written at line 612 and returned
tmpColoredHillshadeContrast == <<"coloredHillshadeC.tif">>

\* the files getColoredHillshade writes in TEMP_FOLDER, lines 534-612
hillshadeCreated ==
    { <<"colorRelief.tif">>, <<"hillshade.tif">>, <<"gammaHillshade.tif">>,
      <<"coloredHillshade.tif">>, <<"colorPalette.txt">>,
      tmpColoredHillshadeContrast, tmpGeotiffCompressed }

\* the files getColoredHillshade removes, lines 614-618
hillshadeRemoved ==
    { <<"colorRelief.tif">>, <<"hillshade.tif">>, <<"gammaHillshade.tif">>,
      <<"colorPalette.txt">>, <<"coloredHillshade.tif">> }

(***************************************************************************)
(* exportStoragePreview, lines 622-654, with getColoredHillshade, lines    *)
(* 529-620, and getMdeColorValues, lines 450-503, for an elevation raster. *)
(* The intermediate files are written and removed within the step; line    *)
(* 651 removes the contrast image; mde_compress.tif is not removed.        *)
(* The list colorValues is a local of the call and is gone when it returns.*)
(***************************************************************************)
ExportPreview ==
    /\ pc = "preview"
    /\ IF self.isMDE
       THEN LET ramp == getMdeColorValues(raster.stats)
                sld == Call("sld", self.outputFilename, <<"ramp">>, NotGiven, <<>>)
                preview == Call("preview", self.outputFilename, <<"hillshade">>,
                                <<"none">>, <<>>)
            IN /\ IF ramp = <<"raise">>
                  THEN /\ scratch' = scratch \cup { tmpGeotiffCompressed }
                       /\ Abort("RuntimeError: Reading nan values")
                       /\ colorValues' = <<>>
                       /\ UNCHANGED exported
                  ELSE /\ colorValues' = <<>>
                       /\ exported' = exported \o
                              (IF params.export_sld THEN <<sld>> ELSE <<>>) \o <<preview>>
                       /\ scratch' = ((scratch \cup hillshadeCreated)
                                          \ hillshadeRemoved)
                                      \ { tmpColoredHillshadeContrast }
                       /\ pc' = stageAfter("preview")
                       /\ UNCHANGED failure
       ELSE /\ exported' = Append(exported,
                   Call("preview", self.outputFilename, <<"archive">>, <<"none">>, <<>>))
            /\ pc' = stageAfter("preview")
            /\ UNCHANGED <<colorValues, scratch, failure>>
    /\ UNCHANGED <<params, metadata, idx, file, raster, file_ds, self, tmpWarp>>

needsWarp_never(epsg) == FALSE

\* self.epsg != params.geoserver['epsg'], line 194
needsWarp(epsg) == epsg # params.geoserver_epsg

(***************************************************************************)
(* exportGeoserverFiles, lines 185-211: the reprojection warp.             *)
(***************************************************************************)
ExportWarp ==
    /\ pc = "warp"
    /\ IF needsWarp(self.epsg)
       THEN /\ tmpWarp' = <<"path", file>>
            /\ exported' = Append(exported,
                   Call("warp", file, file_ds,
                        nodataSetting(self.tieneCanalAlfa, self.noDataValue), <<>>))
            /\ scratch' = scratch \cup { <<"warp", file>> }
       ELSE /\ tmpWarp' = <<"None">>
            /\ UNCHANGED <<exported, scratch>>
    /\ pc' = stageAfter("warp")
    /\ UNCHANGED <<params, metadata, idx, file, raster, file_ds, self, colorValues, failure>>

\* fileToConvert = ds if tmpWarp else file_ds, line 232
fileToConvert == IF tmpWarp # <<"None">> THEN <<"warped", file_ds[2]>> ELSE file_ds

\* the candidate polygons of the polygonization, by area
PolygonAreas ==
    UNION { [1..n -> {SampleAreas[1], SampleAreas[2]}] : n \in 0..MaxPolys }

\* the areas kept by the filter of lines 349-357
biggerGeoms(areas) ==
    SelectSeq(areas, LAMBDA a : a > params.outlines_minimum_area)

\* what exportOutline does with the merged geometry, lines 363-412: an empty
\* collection is valid and stays empty when simplified
outlineOutcome(kept, valid, keepsShape) ==
    LET empty == kept = <<>>
        isValid == empty \/ valid
        collapsed == empty \/ ~keepsShape
    IN IF ~isValid THEN "invalid" ELSE IF collapsed THEN "empty" ELSE "written"

(***************************************************************************)
(* exportGeoserverFiles, lines 213-235, and exportOutline, lines 292-419.  *)
(* The outline data source is created at line 338, before the geometry is  *)
(* examined, and closed at line 416 whatever the outcome.                  *)
(***************************************************************************)
ExportOutline ==
    /\ pc = "outline"
    /\ IF outlineWanted(self.isMDE)
       THEN \E resolves \in BOOLEAN, areas \in PolygonAreas,
               valid \in BOOLEAN, keepsShape \in BOOLEAN :
            IF ~resolves
            THEN /\ Abort("RuntimeError: EPSG not found")
                 /\ UNCHANGED <<exported, scratch>>
            ELSE /\ scratch' = scratch \cup { <<"polygons", self.outputFilename>> }
                 /\ LET outcome == outlineOutcome(biggerGeoms(areas), valid, keepsShape)
                        created == Call("outline", self.outputFilename, fileToConvert,
                                        NotGiven, <<>>)
                    IN exported' = Append(exported,
                           [created EXCEPT !.outcome = outcome,
                                           !.features = IF outcome = "written" THEN 1 ELSE 0])
                 /\ pc' = stageAfter("outline")
                 /\ UNCHANGED failure
       ELSE /\ pc' = stageAfter("outline")
            /\ UNCHANGED <<exported, scratch, failure>>
    /\ UNCHANGED <<params, metadata, idx, file, raster, file_ds, self, tmpWarp, colorValues>>

(***************************************************************************)
(* exportGeoserverFiles, lines 237-246, and processTifs, lines 155-158:    *)
(* the tile-server raster; `del tmpWarp` unbinds the name and removes no   *)
(* file; the dataset is released.                                          *)
(***************************************************************************)
ExportTranslate ==
    /\ pc = "translate"
    /\ exported' = Append(exported,
           Call("geoserver", self.outputFilename, fileToConvert,
                nodataSetting(self.tieneCanalAlfa, self.noDataValue), metadataOptions))
    /\ tmpWarp' = <<"None">>
    /\ file_ds' = <<"None">>
    /\ pc' = stageAfter("translate")
    /\ UNCHANGED <<params, metadata, idx, file, raster, self, colorValues, scratch, failure>>

Next ==
    \/ NextFile
    \/ WalkDone
    \/ ReadBands
    \/ ResolveIdentity
    \/ ReadMetadata
    \/ ExportStorage
    \/ ExportPreview
    \/ ExportWarp
    \/ ExportOutline
    \/ ExportTranslate

Spec == Init /\ [][Next]_vars

(***************************************************************************)
(* Identity resolution alone, over generated file names.                   *)
(***************************************************************************)
InitIdentity ==
    /\ params \in { c \in Configs :
                      /\ c.outlines_enabled = c.storage_exportJSON
                      /\ c.outlines_enabled = c.storage_previews }
    /\ metadata = ConfiguredTags
    /\ idx = 1
    /\ pc = "bands"
    /\ file \in IdentityNames
    /\ raster \in IdentityRasters
    /\ file_ds = <<"ds", 1>>
    /\ self = NewSelf
    /\ exported = <<>>
    /\ tmpWarp = <<"None">>
    /\ colorValues = <<>>
    /\ scratch = {}
    /\ failure = "none"

NextIdentity ==
    \/ ReadBands
    \/ ResolveIdentity

SpecIdentity == InitIdentity /\ [][NextIdentity]_vars

(***************************************************************************)
(* getMdeColorValues alone, over a range of percentile values.             *)
(***************************************************************************)
ComputeRamp ==
    /\ pc = "ramp"
    /\ LET ramp == getMdeColorValues(raster.stats)
       IN IF ramp = <<"raise">>
          THEN /\ Abort("RuntimeError: Reading nan values")
               /\ colorValues' = <<>>
          ELSE /\ colorValues' = ramp
               /\ pc' = "ramp done"
               /\ UNCHANGED failure
    /\ UNCHANGED <<params, metadata, idx, file, raster, file_ds, self, exported,
                   tmpWarp, scratch>>

InitRamp ==
    /\ params \in { c \in Configs :
                      c.outlines_enabled /\ c.storage_exportJSON /\ c.storage_previews }
    /\ metadata = ConfiguredTags
    /\ idx = 1
    /\ pc = "ramp"
    /\ file = <<"r">> \o TifExt
    /\ raster \in RampRasters
    /\ file_ds = <<"ds", 1>>
    /\ self = NewSelf
    /\ exported = <<>>
    /\ tmpWarp = <<"None">>
    /\ colorValues = <<>>
    /\ scratch = {}
    /\ failure = "none"

NextRamp == ComputeRamp

SpecRamp == InitRamp /\ [][NextRamp]_vars

(***************************************************************************)
(* Properties.                                                             *)
(***************************************************************************)
Calls(target) == { i \in 1..Len(exported) : exported[i].target = target }

Made(target) == Calls(target) # {}

\* the walk has yielded a file and its processing ran to the end
FileDone == pc = "walk" /\ idx > 0

\* C1: the metadata tags stamped on a file's output rasters are the
\* configured tags followed by exactly one registroId tag and one mapId tag,
\* both of that file; no tag of an earlier file is among them.
C1_TagsOfThisFileOnly ==
    \A i \in 1..Len(exported) :
        exported[i].target \in {"archive", "geoserver"} =>
            exported[i].meta =
                ConfiguredTags \o << <<"registroId", self.registroid>>,
                                     <<"mapId", self.mapId>> >>

\* C2: artifacts are produced only for a file whose name ends in .tif or
\* .tiff, each target at most once and the archive and tile-server rasters
\* exactly once when the file is done, always from the dataset opened from
\* that same file; a file with another extension produces no export and no
\* failure.
C2_OnlyTifExportedOnceFromItsOwnDataset ==
    /\ exported # <<>> => isTif(file)
    /\ \A i, j \in 1..Len(exported) :
           exported[i].target = exported[j].target => i = j
    /\ FileDone /\ isTif(file) => Made("archive") /\ Made("geoserver")
    /\ \A i \in 1..Len(exported) :
           exported[i].target \in {"archive", "warp"} => exported[i].src = <<"ds", idx>>
    /\ \A i \in 1..Len(exported) :
           exported[i].target \in {"geoserver", "outline"} =>
               exported[i].src \in { <<"ds", idx>>, <<"warped", idx>> }
    /\ idx > 0 /\ ~isTif(file) => failure = "none" /\ exported = <<>>

Kind == IF self.isMDE THEN "Elevation" ELSE "Orthomosaic"

\* the band count has been read and the raster classified
Classified == pc \in {"identity", "metadata"}

\* C3: a raster is Elevation exactly if its band count is at most 2 and
\* Orthomosaic otherwise: 1 and 2 bands give Elevation, 3 and more give
\* Orthomosaic, whatever the file name and the configuration.
C3_KindFromBandCount ==
    Classified =>
        /\ Kind = "Elevation" <=> raster.bands <= 2
        /\ raster.bands \in {1, 2} => Kind = "Elevation"
        /\ raster.bands \in {3, 4} => Kind = "Orthomosaic"
        /\ Kind \in {"Elevation", "Orthomosaic"}

C3_Witness == pc = "metadata" /\ raster.bands = 2 /\ Kind = "Elevation"

\* the part of s before the first occurrence of sep
Before(s, sep) == SubSeq(s, 1, Find(s, sep) - 1)

\* the part of s after the first occurrence of sep
After(s, sep) == SubSeq(s, Find(s, sep) + Len(sep), Len(s))

\* the part of s between the first occurrence of a and the next occurrence
\* of b, to the end of s when b does not follow
Between(s, a, b) ==
    IF Contains(After(s, a), b) THEN Before(After(s, a), b) ELSE After(s, a)

\* the identity of the file has been resolved
Resolved == pc = "metadata"

WellFormed == Contains(file, params.filename_prefix)

\* C4: for a file name that contains the prefix marker, Elevation takes
\* mapId from between the prefix and suffix markers and registryId from
\* before the prefix marker, Orthomosaic takes mapId from after the prefix
\* marker and registryId from before the first underscore, the extension
\* stripped from mapId; outputBaseName is registryId + prefix + mapId, plus
\* the suffix marker for Elevation.
C4_WellFormedIdentity ==
    Resolved /\ WellFormed =>
        LET prefix == params.filename_prefix
            suffix == params.filename_suffix
        IN /\ Kind = "Elevation" =>
                  /\ self.mapId = removeExtension(Between(file, prefix, suffix))
                  /\ self.registroid = Before(file, prefix)
           /\ Kind = "Orthomosaic" =>
                  /\ self.mapId = removeExtension(After(file, prefix))
                  /\ self.registroid = Before(file, Chr("_"))
           /\ self.outputFilename =
                  self.registroid \o prefix \o self.mapId \o
                      (IF Kind = "Elevation" THEN suffix ELSE <<>>)

\* s cut at its first dash
TruncatedAtDash(s) == IF Contains(s, Chr("-")) THEN Before(s, Chr("-")) ELSE s

IsHexToken(s, n) ==
    /\ Len(s) = n
    /\ \A i \in 1..Len(s) : \E d \in 1..Len(HexChars) : s[i] = HexChars[d]

\* C5 as stated: for a file name without the prefix marker, whatever the
\* kind, mapId is a 12-hex-character token, registryId is the file name with
\* its extension stripped, cut at the first dash, and resolution does not
\* fail.
C5_FallbackIdentityAnyKind ==
    ~WellFormed =>
        /\ failure = "none"
        /\ Resolved =>
               /\ IsHexToken(self.mapId, 12)
               /\ self.registroid = TruncatedAtDash(removeExtension(file))

\* C5 amended: as above for Orthomosaic; for Elevation the file name is
\* first cut at the first suffix marker, when it has one, and then has its
\* extension stripped and is cut at the first dash.
C5_FallbackIdentity ==
    ~WellFormed =>
        /\ failure = "none"
        /\ Resolved =>
               LET suffix == params.filename_suffix
                   stem == IF Kind = "Elevation" /\ Contains(file, suffix)
                           THEN Before(file, suffix)
                           ELSE file
               IN /\ IsHexToken(self.mapId, 12)
                  /\ self.registroid = TruncatedAtDash(removeExtension(stem))

C5_Witness ==
    /\ Resolved
    /\ ~WellFormed
    /\ Kind = "Elevation"
    /\ Contains(file, params.filename_suffix)
    /\ Contains(file, Chr("-"))
    /\ self.registroid # <<>>
    /\ self.registroid # TruncatedAtDash(removeExtension(file))

\* C6: for a raster classified as Elevation no outline file and no
\* raster-info JSON is written, whether or not the configuration enables
\* them; an outline file that is written holds at most one feature.
C6_NoOutlineNoJsonForElevation ==
    /\ Kind = "Elevation" => ~Made("outline") /\ ~Made("json")
    /\ \A i \in Calls("outline") : exported[i].features <= 1

C6_Witness ==
    /\ FileDone
    /\ Kind = "Elevation"
    /\ params.outlines_enabled
    /\ params.storage_exportJSON
    /\ Made("archive")
    /\ Made("geoserver")

\* C7: when the merged footprint geometry is invalid after repair, or its
\* simplification is empty, no outline file exists for the file, while its
\* archive raster, its preview and raster-info JSON where enabled, and its
\* tile-server raster are written and the run goes on.
C7_SkippedOutlineLeavesNoFile ==
    \A i \in 1..Len(exported) :
        exported[i].outcome \in {"invalid", "empty"} =>
            /\ ~Made("outline")
            /\ Made("archive")
            /\ params.storage_previews => Made("preview")
            /\ params.storage_exportJSON => Made("json")
            /\ failure = "none"
            /\ FileDone => Made("geoserver")

\* the cumulative offsets of the seven breakpoints, in steps
RampOffsets == <<0, 1, 3, 4, 8, 11, 14>>

\* C8: getMdeColorValues returns exactly 7 breakpoints, at offsets
\* 0, 1, 3, 4, 8, 11, 14 times step from trimmedMin, where
\* step = (trimmedMax - trimmedMin) / 14: the first is trimmedMin, the last
\* trimmedMax, and they do not decrease when trimmedMax >= trimmedMin.
\* (Values in units of 1/14, in which step is trimmedMax - trimmedMin.)
C8_RampBreakpoints ==
    pc = "ramp done" =>
        LET trimmedMin == raster.stats[2]
            trimmedMax == raster.stats[3]
        IN /\ Len(colorValues) = 7
           /\ \A i \in 1..Len(colorValues) :
                  colorValues[i] = 14 * trimmedMin + RampOffsets[i] * (trimmedMax - trimmedMin)
           /\ colorValues[1] = 14 * trimmedMin
           /\ colorValues[Len(colorValues)] = 14 * trimmedMax
           /\ trimmedMax >= trimmedMin =>
                  \A i \in 1..(Len(colorValues) - 1) : colorValues[i] <= colorValues[i + 1]

C8_Witness ==
    /\ pc = "ramp done"
    /\ raster.stats = <<"num", 0, 1>>
    /\ colorValues = <<0, 1, 3, 4, 8, 11, 14>>

NanFailure == "RuntimeError: Reading nan values"

\* a step taken after a fatal failure writes no export and takes no file
NothingAfterFatal ==
    failure \in {"SystemExit", NanFailure} =>
        /\ exported' = exported
        /\ idx' = idx
        /\ file' = file
        /\ failure' = failure

\* C9: a failure to open a source raster, or a NaN percentile, ends the run
\* at once: from then on no export is written and no further file is taken
\* from the walk; the file that failed to open has no export at all, and
\* the file with the NaN percentile has no preview, warp, outline or
\* tile-server raster.
C9_FatalFailureEndsRun ==
    /\ [](failure = "SystemExit" => pc = "aborted" /\ exported = <<>>)
    /\ [](failure = NanFailure =>
              /\ pc = "aborted"
              /\ \A i \in 1..Len(exported) : exported[i].target \in {"archive", "json"})
    /\ [][NothingAfterFatal]_vars

C9_Witness ==
    /\ failure = NanFailure
    /\ idx < MaxFiles
    /\ Made("archive")

\* the nodata value of the source, NaN read as 0
SourceNoData == IF raster.nodata = <<"NaN">> THEN <<"num", 0>> ELSE raster.nodata

\* C10 as stated: every raster export of a file (reprojection warp,
\* tile-server raster, archive raster, archive preview) is given nodata
\* "none" if the last band of the source is an alpha channel, and the
\* normalized nodata value of the source otherwise.
C10_NodataOfEveryRasterExport ==
    \A i \in 1..Len(exported) :
        exported[i].target \in {"warp", "geoserver", "archive", "preview"} =>
            exported[i].nodata = IF raster.alpha THEN <<"none">> ELSE SourceNoData

\* C10 amended: the reprojection warp, the tile-server raster and the
\* archive raster are given "none" if the last band of the source is an
\* alpha channel and the normalized nodata value of the source otherwise;
\* the archive preview is always given "none".
C10_NodataOfRasterExports ==
    \A i \in 1..Len(exported) :
        /\ exported[i].target \in {"warp", "geoserver", "archive"} =>
               exported[i].nodata = IF raster.alpha THEN <<"none">> ELSE SourceNoData
        /\ exported[i].target = "preview" => exported[i].nodata = <<"none">>

C10_Witness ==
    /\ FileDone
    /\ ~raster.alpha
    /\ raster.nodata = <<"NaN">>
    /\ Made("warp")
    /\ Made("archive")
    /\ Made("preview")
    /\ Made("geoserver")

\* exportGeoserverFiles has passed the test of line 194
WarpDecided ==
    \/ pc \in {"outline", "translate"}
    \/ Made("geoserver")
    \/ failure = "RuntimeError: EPSG not found"

\* C11: the reprojection warp runs exactly if the EPSG code of the source
\* differs from the target code; the footprint extraction and the
\* tile-server export then read the reprojected raster, and read the
\* opened raster when no warp has run.
C11_WarpIffEpsgDiffers ==
    /\ Made("warp") => raster.epsg # params.geoserver_epsg
    /\ WarpDecided => (Made("warp") <=> raster.epsg # params.geoserver_epsg)
    /\ \A i \in 1..Len(exported) :
           exported[i].target \in {"outline", "geoserver"} =>
               exported[i].src = IF raster.epsg # params.geoserver_epsg
                                 THEN <<"warped", idx>>
                                 ELSE <<"ds", idx>>

C11_Witness ==
    /\ FileDone
    /\ raster.epsg # params.geoserver_epsg
    /\ Made("warp")
    /\ \E i \in Calls("outline") : exported[i].src = <<"warped", idx>>
    /\ \E i \in Calls("geoserver") : exported[i].src = <<"warped", idx>>

\* every call to `first` of the current file is made before every call to `then`
Precedes(first, then) ==
    \A i \in Calls(first), j \in Calls(then) : i < j

\* nothing is exported or reprojected while the identity and the metadata of
\* the file are still being read, and what is exported carries them
IdentityAndMetadataFirst ==
    /\ pc \in {"bands", "identity", "metadata"} => exported = <<>>
    /\ exported # <<>> =>
           /\ self.outputFilename = outputFilenameOf(self.output, self.isMDE)
           /\ self.output # <<>>
           /\ self.bandas = raster.bands
           /\ self.epsg = raster.epsg
           /\ \A i \in 1..Len(exported) :
                  exported[i].name \in {self.outputFilename, file}

\* the walk is asked for the next file only when the last export of the
\* current file, the tile-server raster, has been made
ExportsFinishBeforeNextFile ==
    FileDone => /\ Made("archive")
                /\ Made("geoserver")
                /\ exported[Len(exported)].target = "geoserver"
                /\ file_ds = <<"None">>

\* C12 as stated: identity and metadata are resolved before the reprojection,
\* the reprojection comes before every export of the file (archive raster,
\* preview, outline, raster-info JSON, tile-server raster), and the exports
\* of a file are finished before the next file is taken.
C12_WarpBeforeEveryExport ==
    /\ IdentityAndMetadataFirst
    /\ \A target \in {"archive", "preview", "outline", "json", "geoserver"} :
           Precedes("warp", target)
    /\ ExportsFinishBeforeNextFile

\* C12, amended: identity and metadata are resolved before the reprojection
\* and before every export; the archive raster, the raster-info JSON and the
\* preview are written from the opened raster before the reprojection; the
\* reprojection comes before the outline and the tile-server raster; the
\* exports of a file are finished before the next file is taken.
C12_StorageThenWarpThenGeoserver ==
    /\ IdentityAndMetadataFirst
    /\ \A target \in {"archive", "json", "preview"} : Precedes(target, "warp")
    /\ \A target \in {"outline", "geoserver"} : Precedes("warp", target)
    /\ Precedes("archive", "json") /\ Precedes("json", "preview")
    /\ Precedes("outline", "geoserver")
    /\ ExportsFinishBeforeNextFile

C12_Witness ==
    /\ FileDone
    /\ idx = MaxFiles
    /\ Made("json") /\ Made("preview") /\ Made("warp") /\ Made("outline")
    /\ \E i \in Calls("archive"), j \in Calls("warp") : i < j

\* the scratch files the deletion is stated for: the intermediates of the
\* hillshade compositor, the contrast image, the reprojected raster and the
\* polygonized vector file of the current file
StatedScratch ==
    hillshadeRemoved \cup { tmpColoredHillshadeContrast }
        \cup { <<"warp", file>>, <<"polygons", self.outputFilename>> }

\* C13: after a file has been processed without a fatal error, none of the
\* scratch artifacts created for it is left in the scratch directory: the
\* color-relief, hillshade, gamma-hillshade, composite and palette files,
\* the contrast image, the reprojected raster and the polygonized vector file.
C13_ScratchDeletedAfterFile ==
    FileDone => scratch \cap StatedScratch = {}

\* what the code does delete: the compositor intermediates and the contrast
\* image are gone once the preview step has returned
CompositorScratchDeleted ==
    scratch \cap (hillshadeRemoved \cup { tmpColoredHillshadeContrast }) = {}

====
